---- MODULE Spec2Model ----
(***************************************************************************)
(* A model of the batch image resizer of src/src/main.rs: argument         *)
(* expansion, the per-file loop of main with its overwrite gate, and       *)
(* resize_image with its resize-argument parser.                           *)
(*                                                                         *)
(* Text (paths, the --resize argument, a line read from stdin) is a        *)
(* sequence of one-character strings, so that splitting, trimming, case    *)
(* folding and number parsing are computed character by character.  The    *)
(* image codec (decode, resample, encode) is an external library: a decode *)
(* yields some dimensions or fails, a save succeeds or fails.              *)
(***************************************************************************)
EXTENDS Integers, Sequences, FiniteSets, TLC

VARIABLES
    input,        \* args.input: the positional arguments, in order
    resize,       \* args.resize
    output,       \* args.output: None or Some(path)
    force,        \* args.force
    files,        \* the regular files that exist on disk
    pc,           \* the position of main
    next_input,   \* index of the argument the expansion loop is at
    image_files,  \* the vector built by the expansion loop
    idx,          \* index of the element of image_files the loop is at
    output_path,  \* the output path resolved for the current file, if any
    img,          \* dimensions of the decoded image, if any
    target,       \* (width, height) handed to img.resize, if parsed
    line,         \* the line confirm_overwrite read from stdin, if any
    trace,        \* what the run did so far, one record per operation
    exit          \* "running", "ok" (Ok(())) or the error main returned

vars == <<input, resize, output, force, files, pc, next_input, image_files,
          idx, output_path, img, target, line, trace, exit>>

----------------------------------------------------------------------------
(* Bounds of the model. *)

\* Longest --resize argument enumerated exhaustively over Char.
MaxLen == 4
\* Most positional arguments of a run.
MaxInputs == 2
\* Longest path enumerated exhaustively over PathChar.
MaxPathLen == 5

----------------------------------------------------------------------------
(* Text. *)

Digit == {"0", "1", "3", "5"}

\* The characters resize arguments are drawn from.  It holds no '.', 'e',
\* 'n', 'i' or 'f', so the only text str::parse::<f32> accepts over it is an
\* optional sign followed by digits.
Char == Digit \cup {"x", "%", "-", "a"}

DigitVal(c) ==
    CASE c = "0" -> 0 [] c = "1" -> 1 [] c = "2" -> 2 [] c = "3" -> 3
      [] c = "4" -> 4 [] c = "5" -> 5 [] c = "6" -> 6 [] c = "7" -> 7
      [] c = "8" -> 8 [] c = "9" -> 9

AllDigits == {"0", "1", "2", "3", "4", "5", "6", "7", "8", "9"}

StringsUpTo(n) == UNION {[1..m -> Char] : m \in 0..n}

\* str::ends_with(c)
EndsWith(s, c) == Len(s) > 0 /\ s[Len(s)] = c

\* str::trim_end_matches(c): every trailing c is removed.
RECURSIVE TrimEndMatches(_, _)
TrimEndMatches(s, c) ==
    IF EndsWith(s, c) THEN TrimEndMatches(SubSeq(s, 1, Len(s) - 1), c) ELSE s

\* str::split(c).collect(): the pieces between the occurrences of c; a text
\* with n occurrences gives n + 1 pieces, empty ones included.
RECURSIVE Split(_, _)
Split(s, c) ==
    IF \E i \in 1..Len(s) : s[i] = c
    THEN LET i == CHOOSE j \in 1..Len(s) :
                     s[j] = c /\ \A l \in 1..(j - 1) : s[l] # c
         IN  <<SubSeq(s, 1, i - 1)>> \o Split(SubSeq(s, i + 1, Len(s)), c)
    ELSE <<s>>

\* The value of a text of decimal digits.
RECURSIVE DecimalValue(_)
DecimalValue(s) ==
    IF Len(s) = 0 THEN 0
    ELSE 10 * DecimalValue(SubSeq(s, 1, Len(s) - 1)) + DigitVal(s[Len(s)])

RECURSIVE StripLeadingZeros(_)
StripLeadingZeros(s) ==
    IF Len(s) > 1 /\ s[1] = "0" THEN StripLeadingZeros(Tail(s)) ELSE s

U32MaxDigits == <<"4", "2", "9", "4", "9", "6", "7", "2", "9", "5">>

\* Whether the digit text s (no leading zeros) is a number above u32::MAX.
ExceedsU32(s) ==
    \/ Len(s) > Len(U32MaxDigits)
    \/ /\ Len(s) = Len(U32MaxDigits)
       /\ \E i \in 1..Len(s) :
            /\ DigitVal(s[i]) > DigitVal(U32MaxDigits[i])
            /\ \A j \in 1..(i - 1) : s[j] = U32MaxDigits[j]

None == [some |-> FALSE]
Some(v) == [some |-> TRUE, val |-> v]

\* str::parse::<u32>(): an optional '+', then one or more digits, the value
\* at most u32::MAX.  A '-' is no part of an unsigned number.
ParseU32(s) ==
    LET body == IF Len(s) > 0 /\ s[1] = "+" THEN Tail(s) ELSE s
    IN  IF /\ Len(body) > 0
           /\ \A i \in 1..Len(body) : body[i] \in AllDigits
           /\ ~ExceedsU32(StripLeadingZeros(body))
        THEN Some(DecimalValue(body))
        ELSE None

\* str::parse::<f32>() over Char: an optional sign, then one or more digits.
\* The value is kept as sign and magnitude; a magnitude below 2^24 is an f32
\* exactly.
ParseF32(s) ==
    LET signed == Len(s) > 0 /\ s[1] \in {"+", "-"}
        body == IF signed THEN Tail(s) ELSE s
    IN  IF Len(body) > 0 /\ \A i \in 1..Len(body) : body[i] \in AllDigits
        THEN Some([neg |-> signed /\ s[1] = "-", mag |-> DecimalValue(body)])
        ELSE None

----------------------------------------------------------------------------
(* Single-precision arithmetic.  A positive f32 is m * 2^(-k) with m below *)
(* 2^24; results are rounded to nearest, ties to even, as the hardware     *)
(* does.  All intermediate values stay below 2^31.                         *)

RECURSIVE BitLen(_)
BitLen(n) == IF n = 0 THEN 0 ELSE 1 + BitLen(n \div 2)

\* n * 2^k scaled up until n / 100 has 24 significant bits.
RECURSIVE Scale100(_, _)
Scale100(n, k) == IF n < 838860800 THEN Scale100(2 * n, k + 1) ELSE <<n, k>>

\* p / 100.0 for a whole p in 1 .. 2^24: the f32 nearest the quotient.
F32Div100(p) ==
    LET sc == Scale100(p, 0)
        q == sc[1] \div 100
        r == sc[1] % 100
        up == 2 * r > 100 \/ (2 * r = 100 /\ q % 2 = 1)
    IN  [m |-> IF up THEN q + 1 ELSE q, k |-> sc[2]]

\* w as f32 * x for a whole w below 2^16 and x = m * 2^(-k): the exact
\* product, held as hi * 4096 + lo, rounded to 24 significant bits.
F32Mul(w, x) ==
    LET mh == x.m \div 4096
        ml == x.m % 4096
        hi == w * mh + (w * ml) \div 4096
        lo == (w * ml) % 4096
        s == BitLen(hi) - 12
    IN  IF hi < 4096
        THEN [m |-> hi * 4096 + lo, k |-> x.k]
        ELSE LET q == IF s <= 12
                      THEN hi * 2^(12 - s) + lo \div 2^s
                      ELSE hi \div 2^(s - 12)
                 rem == IF s <= 12
                        THEN lo % 2^s
                        ELSE (hi % 2^(s - 12)) * 4096 + lo
                 half == 2^(s - 1)
                 up == rem > half \/ (rem = half /\ q % 2 = 1)
             IN  [m |-> IF up THEN q + 1 ELSE q, k |-> x.k - s]

\* f32::round of the positive x = m * 2^(-k): to the nearest whole number,
\* a half going away from zero.
F32Round(x) ==
    IF x.k <= 0 THEN x.m * 2^(-x.k)
    ELSE IF x.k >= 26 THEN 0
    ELSE x.m \div 2^x.k + (IF 2 * (x.m % 2^x.k) >= 2^x.k THEN 1 ELSE 0)

\* (dim as f32 * percent).round() as u32, percent being p / 100.0.  A zero
\* or negative product is 0 as a u32 (the cast saturates).
ScaleDim(dim, p) ==
    IF p.neg \/ p.mag = 0 \/ dim = 0 THEN 0
    ELSE F32Round(F32Mul(dim, F32Div100(p.mag)))

----------------------------------------------------------------------------
(* The resize argument, lines 117-142 of resize_image. *)

Ok(w, h) == [ok |-> TRUE, width |-> w, height |-> h]
Err(e) == [ok |-> FALSE, err |-> e]

\* ParseResizeArg taking the first two pieces of any split of two or more.
ParseResizeArgLoose(resize_arg, img_w, img_h) ==
    IF EndsWith(resize_arg, "%")
    THEN LET percent == ParseF32(TrimEndMatches(resize_arg, "%"))
         IN  IF ~percent.some THEN Err("Invalid percentage")
             ELSE Ok(ScaleDim(img_w, percent.val), ScaleDim(img_h, percent.val))
    ELSE LET dims == Split(resize_arg, "x")
         IN  IF Len(dims) < 2
             THEN Err("Resize format must be either 'WxH' or 'N%'")
             ELSE IF ~ParseU32(dims[1]).some THEN Err("Invalid width")
             ELSE IF ~ParseU32(dims[2]).some THEN Err("Invalid height")
             ELSE Ok(ParseU32(dims[1]).val, ParseU32(dims[2]).val)

ParseResizeArg(resize_arg, img_w, img_h) ==
    IF EndsWith(resize_arg, "%")
    THEN LET percent == ParseF32(TrimEndMatches(resize_arg, "%"))
         IN  IF ~percent.some THEN Err("Invalid percentage")
             ELSE Ok(ScaleDim(img_w, percent.val), ScaleDim(img_h, percent.val))
    ELSE LET dims == Split(resize_arg, "x")
         IN  IF Len(dims) # 2
             THEN Err("Resize format must be either 'WxH' or 'N%'")
             ELSE IF ~ParseU32(dims[1]).some THEN Err("Invalid width")
             ELSE IF ~ParseU32(dims[2]).some THEN Err("Invalid height")
             ELSE Ok(ParseU32(dims[1]).val, ParseU32(dims[2]).val)

----------------------------------------------------------------------------
(* Paths. *)

UpperCase == <<"A", "B", "C", "D", "E", "F", "G", "H", "I", "J", "K", "L", "M",
               "N", "O", "P", "Q", "R", "S", "T", "U", "V", "W", "X", "Y", "Z">>
LowerCase == <<"a", "b", "c", "d", "e", "f", "g", "h", "i", "j", "k", "l", "m",
               "n", "o", "p", "q", "r", "s", "t", "u", "v", "w", "x", "y", "z">>

LowerChar(c) ==
    IF \E i \in 1..26 : UpperCase[i] = c
    THEN LowerCase[CHOOSE i \in 1..26 : UpperCase[i] = c]
    ELSE c

\* str::to_lowercase
ToLowercase(s) == [i \in 1..Len(s) |-> LowerChar(s[i])]

\* The index of the last occurrence of c in s, 0 when there is none.
LastIndexOf(s, c) ==
    IF \E i \in 1..Len(s) : s[i] = c
    THEN CHOOSE i \in 1..Len(s) : s[i] = c /\ \A j \in (i + 1)..Len(s) : s[j] # c
    ELSE 0

\* The pieces of a path that Path::components keeps as names or "..": an
\* empty piece (a doubled or trailing separator) and a "." are dropped.
Components(path) ==
    SelectSeq(Split(path, "/"), LAMBDA c : c # <<>> /\ c # <<".">>)

\* Path::file_name: the last component, unless there is none or it is "..".
FileName(path) ==
    LET comps == Components(path)
    IN  IF Len(comps) = 0 \/ comps[Len(comps)] = <<".", ".">>
        THEN None
        ELSE Some(comps[Len(comps)])

\* Path::extension: what follows the last '.' of the file name; none when
\* the name has no '.', or only a leading one.
Extension(path) ==
    LET name == FileName(path)
        dot == IF name.some THEN LastIndexOf(name.val, ".") ELSE 0
    IN  IF dot <= 1 THEN None
        ELSE Some(SubSeq(name.val, dot + 1, Len(name.val)))

ImageExtensions ==
    { <<"j", "p", "g">>, <<"j", "p", "e", "g">>, <<"p", "n", "g">>,
      <<"g", "i", "f">>, <<"b", "m", "p">>, <<"t", "i", "f", "f">>,
      <<"w", "e", "b", "p">> }

\* is_image_file without the lower-casing of the extension.
is_image_file_case_sensitive(path) ==
    LET e == Extension(path)
    IN  (IF e.some THEN e.val ELSE <<>>) \in ImageExtensions

\* main, lines 89-99.
is_image_file(path) ==
    LET e == Extension(path)
        ext == ToLowercase(IF e.some THEN e.val ELSE <<>>)
    IN  ext \in ImageExtensions

\* Path::join for a relative second path.
Join(dir, name) ==
    IF EndsWith(dir, "/") \/ dir = <<>> THEN dir \o name ELSE dir \o <<"/">> \o name

----------------------------------------------------------------------------
(* The file system the runs start from. *)

DirD == <<"d">>
DirS == <<"d", "/", "s">>
DirOut == <<"o", "u", "t">>
FileA == <<"a", ".", "p", "n", "g">>
FileN == <<"n", ".", "t", "x", "t">>
FileC == <<"d", "/", "c", ".", "J", "P", "G">>
FileM == <<"d", "/", "m", ".", "t", "x", "t">>
FileE == <<"d", "/", "s", "/", "e", ".", "g", "i", "f">>
\* Paths that do not exist when a run starts.
FileG == <<"g", ".", "p", "n", "g">>
FileO == <<"o", ".", "p", "n", "g">>
GlobAll == <<"*">>
GlobBad == <<"a", "*", "*">>

Dirs == {DirD, DirS, DirOut}
InitialFiles == {FileA, FileN, FileC, FileM, FileE}

\* Path::is_dir, Path::exists
IsDir(path) == path \in Dirs
Exists(path, fs) == path \in fs \/ path \in Dirs

\* Whether dir is an ancestor of path.
Under(dir, path) ==
    /\ Len(path) > Len(dir) + 1
    /\ SubSeq(path, 1, Len(dir)) = dir
    /\ path[Len(dir) + 1] = "/"

\* The orders a set of paths may be delivered in.
Orders(S) ==
    {o \in [1..Cardinality(S) -> S] : \A i, j \in 1..Cardinality(S) : o[i] = o[j] => i = j}

\* WalkDir::new(dir): every regular file below dir, at any depth.
WalkDirFiles(dir, fs) == {f \in fs : Under(dir, f)}

\* glob: a '*' stands for any run of characters within one component.
RECURSIVE WildMatch(_, _)
WildMatch(pat, s) ==
    IF Len(pat) = 0 THEN Len(s) = 0
    ELSE IF pat[1] = "*"
         THEN \/ WildMatch(Tail(pat), s)
              \/ Len(s) > 0 /\ WildMatch(pat, Tail(s))
         ELSE Len(s) > 0 /\ s[1] = pat[1] /\ WildMatch(Tail(pat), Tail(s))

HasDoubleStar(c) == \E i \in 1..(Len(c) - 1) : c[i] = "*" /\ c[i + 1] = "*"

\* glob::Pattern::new fails on a "**" that is not a whole component.  (The
\* arguments drawn hold no valid recursive "**" component.)
GlobPatternOk(pat) ==
    \A i \in 1..Len(Split(pat, "/")) :
        LET c == Split(pat, "/")[i] IN HasDoubleStar(c) => c = <<"*", "*">>

\* glob::glob(pat): the existing entries, files and directories, that match.
GlobMatches(pat, fs) ==
    LET pc_ == Split(pat, "/")
    IN  {p \in fs \cup Dirs :
            LET sc == Split(p, "/")
            IN  /\ Len(sc) = Len(pc_)
                /\ \A i \in 1..Len(sc) : WildMatch(pc_[i], sc[i])}

Contains(s, c) == \E i \in 1..Len(s) : s[i] = c

----------------------------------------------------------------------------
(* The runs. *)

InputArgs == {DirD, FileA, FileN, FileG, GlobAll, GlobBad}

\* --resize arguments of the runs: "50%", "0%", "1x3", "ax1".
ResizeArgs == { <<"5", "0", "%">>, <<"0", "%">>, <<"1", "x", "3">>, <<"a", "x", "1">> }

\* -o: absent, an existing directory, a file that does not exist yet, an
\* existing file.
OutputArgs == {None, Some(DirOut), Some(FileO), Some(FileA)}

\* The dimensions a decoded image may have.
Dims == { <<200, 100>>, <<50, 75>> }

\* Lines stdin may deliver to read_line; the empty one is end of input.
Answers == { <<"y", "\n">>, <<"Y", "\n">>, <<" ", "y", " ", "\r", "\n">>,
             <<"n", "\n">>, <<"\n">>, <<"y", "e", "s", "\n">>, <<>> }

Event(op, file, out) == [op |-> op, file |-> file, out |-> out]

Init ==
    /\ input \in UNION {[1..m -> InputArgs] : m \in 0..MaxInputs}
    /\ resize \in ResizeArgs
    /\ output \in OutputArgs
    /\ force \in BOOLEAN
    /\ files = InitialFiles
    /\ pc = "start"
    /\ next_input = 1
    /\ image_files = <<>>
    /\ idx = 1
    /\ output_path = None
    /\ img = None
    /\ target = None
    /\ line = None
    /\ trace = <<>>
    /\ exit = "running"

Fail(e) == pc' = "done" /\ exit' = e

\* CheckInput without the test for an empty argument list.
CheckInputNoEmptyTest ==
    /\ pc = "start"
    /\ pc' = "expand"
    /\ UNCHANGED <<input, resize, output, force, files, next_input, image_files,
                   idx, output_path, img, target, line, trace, exit>>

\* main, lines 33-35 and the entry of the expansion loop.
CheckInput ==
    /\ pc = "start"
    /\ IF Len(input) = 0
       THEN Fail("No input files specified")
       ELSE pc' = "expand" /\ exit' = exit
    /\ UNCHANGED <<input, resize, output, force, files, next_input, image_files,
                   idx, output_path, img, target, line, trace>>

\* What one pass of the expansion loop appends for a directory, a glob
\* pattern or a literal path: the image files among the candidates.
Pushed(candidates) == {f \in candidates : is_image_file(f)}

\* PushAll leaving out the paths the vector already holds.
PushAllDedup(v, found) ==
    v \o SelectSeq(found, LAMBDA f : \A i \in 1..Len(v) : v[i] # f)

\* image_files.push(..) for the paths of one argument, in the order found.
PushAll(v, found) == v \o found

\* main, lines 38-59: one pass of the loop over args.input.
ExpandInput ==
    /\ pc = "expand"
    /\ next_input <= Len(input)
    /\ LET arg == input[next_input]
       IN  \/ /\ IsDir(arg)
              /\ \E found \in Orders(Pushed(WalkDirFiles(arg, files))) :
                    image_files' = PushAll(image_files, found)
              /\ next_input' = next_input + 1
              /\ UNCHANGED <<pc, exit>>
           \/ /\ ~IsDir(arg)
              /\ Contains(arg, "*")
              /\ GlobPatternOk(arg)
              /\ \E found \in Orders(Pushed(GlobMatches(arg, files))) :
                    image_files' = PushAll(image_files, found)
              /\ next_input' = next_input + 1
              /\ UNCHANGED <<pc, exit>>
           \/ /\ ~IsDir(arg)
              /\ Contains(arg, "*")
              /\ ~GlobPatternOk(arg)
              /\ Fail("Pattern syntax error")
              /\ UNCHANGED <<image_files, next_input>>
           \/ /\ ~IsDir(arg)
              /\ ~Contains(arg, "*")
              /\ image_files' = PushAll(image_files, 
                                        IF is_image_file(arg) THEN <<arg>> ELSE <<>>)
              /\ next_input' = next_input + 1
              /\ UNCHANGED <<pc, exit>>
    /\ UNCHANGED <<input, resize, output, force, files, idx, output_path, img,
                   target, line, trace>>

\* main, lines 61-63 and the entry of the processing loop.
CheckImages ==
    /\ pc = "expand"
    /\ next_input > Len(input)
    /\ IF Len(image_files) = 0
       THEN Fail("No valid image files found")
       ELSE pc' = "loop" /\ exit' = exit
    /\ UNCHANGED <<input, resize, output, force, files, next_input, image_files,
                   idx, output_path, img, target, line, trace>>

\* OutputPathFor without the directory case.
OutputPathVerbatim(o, input_path) == IF o.some THEN o.val ELSE input_path

\* main, lines 66-70.
OutputPathFor(o, input_path) ==
    IF o.some /\ IsDir(o.val) THEN Join(o.val, FileName(input_path).val)
    ELSE IF o.some THEN o.val
    ELSE input_path

\* MustConfirm without the test of the force flag.
MustConfirmIgnoringForce(path, fs, f) == Exists(path, fs)

\* main, line 72: whether confirm_overwrite is called.
MustConfirm(path, fs, f) == Exists(path, fs) /\ ~f

\* main, lines 65-76: a pass of the loop begins; the output path is resolved
\* and, when the gate asks, the prompt is printed.
ResolveOutput ==
    /\ pc = "loop"
    /\ idx <= Len(image_files)
    /\ LET out == OutputPathFor(output, image_files[idx])
       IN  /\ output_path' = Some(out)
           /\ IF MustConfirm(out, files, force)
              THEN /\ pc' = "confirm"
                   /\ trace' = Append(trace, Event("prompt", idx, out))
              ELSE /\ pc' = "open"
                   /\ trace' = trace
    /\ UNCHANGED <<input, resize, output, force, files, next_input, image_files,
                   idx, img, target, line, exit>>

\* confirm_overwrite, lines 106-107: read_line delivers a line, or fails.
ReadLine ==
    /\ pc = "confirm"
    /\ \/ /\ \E l \in Answers : line' = Some(l)
          /\ pc' = "answered"
          /\ exit' = exit
       \/ /\ Fail("stdin read error")
          /\ line' = line
    /\ UNCHANGED <<input, resize, output, force, files, next_input, image_files,
                   idx, output_path, img, target, trace>>

Whitespace == {" ", "\t", "\n", "\r"}

\* str::trim
RECURSIVE Trim(_)
Trim(s) ==
    IF Len(s) > 0 /\ s[1] \in Whitespace THEN Trim(Tail(s))
    ELSE IF Len(s) > 0 /\ s[Len(s)] \in Whitespace THEN Trim(SubSeq(s, 1, Len(s) - 1))
    ELSE s

\* confirm_overwrite, line 108.
IsYes(l) == ToLowercase(Trim(l)) = <<"y">>

\* Confirm with a refusal ending the run instead of the pass.
ConfirmOrAbort ==
    /\ pc = "answered"
    /\ IF IsYes(line.val)
       THEN /\ pc' = "open"
            /\ exit' = exit
       ELSE Fail("Overwrite declined")
    /\ line' = None
    /\ UNCHANGED <<input, resize, output, force, files, next_input, image_files,
                   idx, output_path, img, target, trace>>

\* main, lines 73-75: the answer decides; a refusal moves to the next file.
Confirm ==
    /\ pc = "answered"
    /\ IF IsYes(line.val)
       THEN /\ pc' = "open"
            /\ UNCHANGED <<idx, output_path>>
       ELSE /\ pc' = "loop"
            /\ idx' = idx + 1
            /\ output_path' = None
    /\ line' = None
    /\ UNCHANGED <<input, resize, output, force, files, next_input, image_files,
                   img, target, trace, exit>>

\* OpenImage with a failure confined to its file: the loop goes on.
OpenImageIsolated ==
    /\ pc = "open"
    /\ trace' = Append(trace, Event("decode", idx, output_path.val))
    /\ \/ /\ image_files[idx] \in files
          /\ \E d \in Dims : img' = Some(d)
          /\ pc' = "parse"
          /\ UNCHANGED <<idx, output_path>>
       \/ /\ pc' = "loop"
          /\ idx' = idx + 1
          /\ output_path' = None
          /\ img' = img
    /\ UNCHANGED <<input, resize, output, force, files, next_input, image_files,
                   target, line, exit>>

\* resize_image, lines 113-114: image::open reads and decodes the input; it
\* fails on a missing file, and may fail on any other.
OpenImage ==
    /\ pc = "open"
    /\ trace' = Append(trace, Event("decode", idx, output_path.val))
    /\ \/ /\ image_files[idx] \in files
          /\ \E d \in Dims : img' = Some(d)
          /\ pc' = "parse"
          /\ exit' = exit
       \/ /\ Fail("Failed to open image")
          /\ img' = img
    /\ UNCHANGED <<input, resize, output, force, files, next_input, image_files,
                   idx, output_path, target, line>>

\* resize_image, lines 117-142.
ParseArg ==
    /\ pc = "parse"
    /\ LET r == ParseResizeArg(resize, img.val[1], img.val[2])
       IN  IF r.ok
           THEN /\ target' = Some(<<r.width, r.height>>)
                /\ pc' = "resize"
                /\ exit' = exit
           ELSE /\ Fail(r.err)
                /\ target' = target
    /\ UNCHANGED <<input, resize, output, force, files, next_input, image_files,
                   idx, output_path, img, line, trace>>

\* resize_image, line 145: img.resize returns an image, never an error.
ResizeImage ==
    /\ pc = "resize"
    /\ pc' = "save"
    /\ trace' = Append(trace, Event("resize", idx, output_path.val))
    /\ UNCHANGED <<input, resize, output, force, files, next_input, image_files,
                   idx, output_path, img, target, line, exit>>

\* resize_image, lines 147-151, and main, lines 78-84: the save succeeds, the
\* "Processed" line is printed and the loop moves on; or it fails.
SaveImage ==
    /\ pc = "save"
    /\ \/ /\ files' = files \cup {output_path.val}
          /\ trace' = trace \o << Event("write", idx, output_path.val),
                                  Event("processed", idx, output_path.val) >>
          /\ idx' = idx + 1
          /\ pc' = "loop"
          /\ output_path' = None
          /\ img' = None
          /\ target' = None
          /\ exit' = exit
       \/ /\ Fail("Failed to save image")
          /\ UNCHANGED <<files, trace, idx, output_path, img, target>>
    /\ UNCHANGED <<input, resize, output, force, next_input, image_files, line>>

\* main, line 86.
Finish ==
    /\ pc = "loop"
    /\ idx > Len(image_files)
    /\ pc' = "done"
    /\ exit' = "ok"
    /\ UNCHANGED <<input, resize, output, force, files, next_input, image_files,
                   idx, output_path, img, target, line, trace>>

Next ==
    \/ CheckInput
    \/ ExpandInput
    \/ CheckImages
    \/ ResolveOutput
    \/ ReadLine
    \/ Confirm
    \/ OpenImage
    \/ ParseArg
    \/ ResizeImage
    \/ SaveImage
    \/ Finish

Spec == Init /\ [][Next]_vars

----------------------------------------------------------------------------
(* The resize argument on its own: resize_image from the point where the   *)
(* image is decoded, for every short argument over Char and the arguments  *)
(* the documentation names.                                                *)

NamedResizeArgs ==
    { <<"3", "0", "0", "x", "1", "5", "0">>,
      <<"a", "b", "c", "x", "1", "0", "0">>,
      <<"1", "0", "0", "x", "1", "0", "0", "x", "1", "0", "0">>,
      <<"x", "1", "0", "0">>,
      <<"1", "0", "0", "x">>,
      <<"1", "0", "0">>,
      <<"+", "7", "x", "0", "9">>,
      <<"1", "x", "4", "2", "9", "4", "9", "6", "7", "2", "9", "6">> }

\* The dimensions of the decoded image the argument is parsed against.
SourceDims == Dims \cup { <<10, 10>>, <<1, 1>>, <<150, 450>> }

InitParse ==
    /\ input = <<FileA>>
    /\ resize \in StringsUpTo(MaxLen) \cup NamedResizeArgs
    /\ output = None
    /\ force = TRUE
    /\ files = InitialFiles
    /\ pc = "parse"
    /\ next_input = 2
    /\ image_files = <<FileA>>
    /\ idx = 1
    /\ output_path = Some(FileA)
    /\ img \in {Some(d) : d \in SourceDims}
    /\ target = None
    /\ line = None
    /\ trace = <<Event("decode", 1, FileA)>>
    /\ exit = "running"

NextParse == ParseArg \/ ResizeImage

SpecParse == InitParse /\ [][NextParse]_vars

----------------------------------------------------------------------------
(* The expansion of one argument on its own, for every short path over     *)
(* PathChar and every spelling of the recognized extensions.               *)

PathChar == {"a", ".", "/", "p", "n", "g", "P"}

UpperOf(c) ==
    IF \E i \in 1..26 : LowerCase[i] = c
    THEN UpperCase[CHOOSE i \in 1..26 : LowerCase[i] = c]
    ELSE c

\* Every spelling of e in upper and lower case letters.
RECURSIVE Spellings(_)
Spellings(e) ==
    IF Len(e) = 0 THEN {<<>>}
    ELSE {<<c>> \o r : c \in {e[1], UpperOf(e[1])}, r \in Spellings(Tail(e))}

Stems == { <<"a", ".">>, <<".">>, <<"a">>, <<"d", "/", "a", ".">>, <<"d", "/", ".">>,
           <<"a", ".", "b", ".">>, <<"a", ".", ".">> }

OtherExtensions == { <<"t", "x", "t">>, <<"j", "p", "g", "x">>, <<"p", "n">>,
                     <<"j", "p", "g", "/">>, <<>> }

SamplePaths ==
    UNION {[1..m -> PathChar] : m \in 1..MaxPathLen}
      \cup {s \o v : s \in Stems, v \in UNION {Spellings(e) : e \in ImageExtensions}}
      \cup {s \o v : s \in Stems, v \in OtherExtensions}

InitMatch ==
    /\ input \in {<<p>> : p \in SamplePaths \cup InputArgs}
    /\ resize = <<"1", "x", "3">>
    /\ output = None
    /\ force = FALSE
    /\ files = InitialFiles
    /\ pc = "expand"
    /\ next_input = 1
    /\ image_files = <<>>
    /\ idx = 1
    /\ output_path = None
    /\ img = None
    /\ target = None
    /\ line = None
    /\ trace = <<>>
    /\ exit = "running"

NextMatch == ExpandInput \/ CheckImages

SpecMatch == InitMatch /\ [][NextMatch]_vars

----------------------------------------------------------------------------
(* Properties. *)

HasEvent(op, j) == \E i \in 1..Len(trace) : trace[i].op = op /\ trace[i].file = j

CountEvents(op) == Cardinality({i \in 1..Len(trace) : trace[i].op = op})

\* The errors of resize_image: decode, resize argument, save.
FileErrors ==
    { "Failed to open image", "Failed to save image", "Invalid percentage",
      "Resize format must be either 'WxH' or 'N%'", "Invalid width", "Invalid height" }

\* C1: fail-fast.  Once a file's decode, resize-argument parse or save has
\* failed the run has ended with that error: nothing more can happen, no
\* file after the failing one was prompted for, decoded or written, and the
\* "Processed" lines are those of the files written before it.  At any time,
\* a file that was opened and not written is the file the loop is at: the
\* loop never moves past a file that failed.
FailFast ==
    /\ \A i \in 1..Len(trace) : trace[i].file <= idx
    /\ \A j \in 1..Len(image_files) :
          (HasEvent("decode", j) /\ ~HasEvent("write", j)) => idx = j
    /\ \A j \in 1..Len(image_files) : HasEvent("processed", j) <=> HasEvent("write", j)
    /\ exit \in FileErrors =>
          /\ pc = "done"
          /\ ~ENABLED Next
          /\ idx <= Len(image_files)
          /\ HasEvent("decode", idx)
          /\ ~HasEvent("write", idx)
          /\ CountEvents("processed") = CountEvents("write")
          /\ \A j \in 1..Len(image_files) : HasEvent("processed", j) => j < idx

\* File 2 of 3 fails to decode after file 1 was written: one "Processed" line.
FailFastWitness ==
    /\ exit = "Failed to open image"
    /\ Len(image_files) = 3
    /\ idx = 2
    /\ CountEvents("processed") = 1
    /\ HasEvent("processed", 1)

Declined == pc = "answered" /\ Trim(line.val) \notin {<<"y">>, <<"Y">>}

\* C2: an answer other than "y"/"Y" (after trimming), the empty one included,
\* skips the file: the loop moves to the next file, nothing is decoded,
\* resized, written or reported for it, and the run goes on without error; a
\* run that ends with every file declined exits zero.
SkipOnDecline ==
    /\ [][Declined =>
            /\ pc' = "loop"
            /\ idx' = idx + 1
            /\ trace' = trace
            /\ files' = files
            /\ exit' = "running"]_vars
    /\ [](\A j \in 1..Len(image_files) :
            (j < idx /\ HasEvent("prompt", j) /\ ~HasEvent("decode", j)) =>
                /\ ~HasEvent("resize", j)
                /\ ~HasEvent("write", j)
                /\ ~HasEvent("processed", j))
    /\ []((/\ pc = "done"
           /\ Len(image_files) > 0
           /\ idx > Len(image_files)
           /\ \A i \in 1..Len(trace) : trace[i].op = "prompt") => exit = "ok")

\* Two files, both declined, and the run exits zero.
SkipOnDeclineWitness ==
    /\ pc = "done"
    /\ exit = "ok"
    /\ Len(image_files) >= 2
    /\ Len(trace) = Len(image_files)
    /\ \A i \in 1..Len(trace) : trace[i].op = "prompt"

Prompted == Len(trace') = Len(trace) + 1 /\ trace'[Len(trace')].op = "prompt"

\* C3: a step prints the overwrite prompt if and only if it is the step that
\* reaches a file in the loop with force off and the resolved output path
\* existing at that moment; with force on no run ever prompts.
PromptIffExistsAndNotForce ==
    /\ [][Prompted <=>
            /\ pc = "loop"
            /\ idx <= Len(image_files)
            /\ ~force
            /\ output_path'.some
            /\ (output_path'.val \in files \/ output_path'.val \in Dirs)]_vars
    /\ [](force => CountEvents("prompt") = 0)
    /\ [](pc \in {"confirm", "answered"} => HasEvent("prompt", idx))

\* The second of two inputs resolving to one output file that did not exist
\* when the run started is prompted for.
PromptWitness ==
    \E i \in 1..Len(trace) :
        /\ trace[i].op = "prompt"
        /\ trace[i].out = FileO
        /\ HasEvent("write", 1)
        /\ trace[i].file = 2

\* C4: a percentage whose resulting width or height is not positive makes
\* the run fail; nothing is resized or written for that target.
NonPositiveRejected ==
    [][(/\ EndsWith(resize, "%")
        /\ target.some
        /\ (target.val[1] <= 0 \/ target.val[2] <= 0)) =>
            (trace' = trace /\ files' = files)]_vars

\* C5: with no positional argument the run fails with "No input files
\* specified" having expanded nothing; when the expansion of a non-empty
\* argument list ends with no image file the run fails with "No valid image
\* files found"; in both cases nothing is prompted, decoded or written.
InputErrors ==
    /\ (Len(input) = 0 /\ pc # "start") =>
          /\ pc = "done"
          /\ exit = "No input files specified"
          /\ next_input = 1
    /\ (Len(input) > 0 /\ next_input > Len(input) /\ Len(image_files) = 0
          /\ pc # "expand") =>
          /\ pc = "done"
          /\ exit = "No valid image files found"
    /\ Len(image_files) = 0 => (trace = <<>> /\ files = InitialFiles /\ ~output_path.some)

\* Two arguments, neither an image: the run fails after the expansion.
InputErrorsWitness ==
    /\ Len(input) = 2
    /\ pc = "done"
    /\ exit = "No valid image files found"

\* The output path the documentation gives for the file at position j.
ExpectedOutput(j) ==
    LET in == image_files[j]
    IN  IF ~output.some THEN in
        ELSE IF output.val \in Dirs
             THEN output.val \o <<"/">> \o SubSeq(in, LastIndexOf(in, "/") + 1, Len(in))
             ELSE output.val

\* C6: the output path of every processed input is the explicit output
\* directory joined with the input's file name, else the explicit output
\* verbatim, else the input path; a file has one output path throughout.
OutputResolved ==
    /\ output_path.some => (idx <= Len(image_files) /\ output_path.val = ExpectedOutput(idx))
    /\ pc \in {"confirm", "answered", "open", "parse", "resize", "save"} => output_path.some
    /\ \A i \in 1..Len(trace) : trace[i].out = ExpectedOutput(trace[i].file)

\* d/c.JPG is written to out/c.JPG.
OutputResolvedWitness ==
    \E i \in 1..Len(trace) :
        /\ trace[i].op = "write"
        /\ image_files[trace[i].file] = FileC
        /\ trace[i].out = <<"o", "u", "t", "/", "c", ".", "J", "P", "G">>

IsUnsigned(s) ==
    LET body == IF Len(s) > 0 /\ s[1] = "+" THEN Tail(s) ELSE s
    IN  /\ Len(body) > 0
        /\ \A i \in 1..Len(body) : body[i] \in AllDigits
        /\ Len(StripLeadingZeros(body)) <= 9

UnsignedValue(s) == DecimalValue(IF s[1] = "+" THEN Tail(s) ELSE s)

\* The position of the 'x' of a well-formed "WxH", 0 for any other text.
WxH(s) ==
    IF \E i \in 1..Len(s) :
            /\ s[i] = "x"
            /\ \A j \in 1..Len(s) : s[j] = "x" => j = i
            /\ IsUnsigned(SubSeq(s, 1, i - 1))
            /\ IsUnsigned(SubSeq(s, i + 1, Len(s)))
    THEN CHOOSE i \in 1..Len(s) : s[i] = "x"
    ELSE 0

\* C7: an argument not ending in '%' is accepted exactly when it is two
\* unsigned integers around a single 'x'; the target is then those two
\* numbers, whatever the image's dimensions, and otherwise the run fails
\* with a format, width or height error.
ExactDimensions ==
    (~EndsWith(resize, "%") /\ pc # "parse") =>
        IF WxH(resize) > 0
        THEN /\ exit = "running"
             /\ target = Some(<< UnsignedValue(SubSeq(resize, 1, WxH(resize) - 1)),
                                 UnsignedValue(SubSeq(resize, WxH(resize) + 1, Len(resize))) >>)
        ELSE /\ pc = "done"
             /\ target = None
             /\ exit \in { "Resize format must be either 'WxH' or 'N%'",
                           "Invalid width", "Invalid height" }

\* "300x150" against a 10x10 image gives (300, 150).
ExactDimensionsWitness ==
    /\ resize = <<"3", "0", "0", "x", "1", "5", "0">>
    /\ img = Some(<<10, 10>>)
    /\ target = Some(<<300, 150>>)

\* n / d rounded to the nearest whole number, a half going up.
RoundHalfAway(n, d) == (2 * n + d) \div (2 * d)

\* C8: "p%" with p a positive number gives (round(W*p/100), round(H*p/100)),
\* a half rounding away from zero; a remainder that is no number fails with
\* "Invalid percentage".
PercentExact ==
    (EndsWith(resize, "%") /\ pc # "parse") =>
        LET p == ParseF32(TrimEndMatches(resize, "%"))
        IN  /\ ~p.some => (pc = "done" /\ exit = "Invalid percentage")
            /\ (p.some /\ ~p.val.neg /\ p.val.mag > 0) =>
                  target = Some(<< RoundHalfAway(img.val[1] * p.val.mag, 100),
                                   RoundHalfAway(img.val[2] * p.val.mag, 100) >>)

\* Whether the file name of path is a stem, a '.', and a recognized extension
\* in any letter case.
HasImageSuffix(path) ==
    /\ FileName(path).some
    /\ LET name == FileName(path).val
       IN  \E e \in ImageExtensions :
              /\ Len(name) >= Len(e) + 2
              /\ name[Len(name) - Len(e)] = "."
              /\ \A i \in 1..Len(e) :
                    name[Len(name) - Len(e) + i] \in {e[i], UpperOf(e[i])}

\* C9: every path in image_files, whether found in a directory, by a glob
\* or named literally, has a recognized image extension in some letter case;
\* a literal argument is in the list exactly when it has one, and a literal
\* argument without one is dropped without an error.
OnlyImageFiles ==
    /\ \A i \in 1..Len(image_files) : HasImageSuffix(image_files[i])
    /\ (next_input = 2 /\ ~IsDir(input[1]) /\ ~Contains(input[1], "*")) =>
          /\ image_files = IF HasImageSuffix(input[1]) THEN <<input[1]>> ELSE <<>>
          /\ exit \in {"running", "No valid image files found"}

\* "a.Png" is kept.
OnlyImageFilesWitness ==
    /\ input = << <<"a", ".", "P", "n", "g">> >>
    /\ image_files = input
    /\ pc = "loop"

\* The image files each argument of the runs stands for.
ExpectedMatches(arg) ==
    CASE arg = DirD -> {FileC, FileE}
      [] arg = FileA -> {FileA}
      [] arg = FileN -> {}
      [] arg = FileG -> {FileG}
      [] arg = GlobAll -> {FileA}
      [] arg = GlobBad -> {}

RECURSIVE Offset(_)
Offset(k) == IF k <= 1 THEN 0 ELSE Offset(k - 1) + Cardinality(ExpectedMatches(input[k - 1]))

\* C10: image_files is the concatenation, in argument order, of each
\* expanded argument's image files, a path appearing once for every argument
\* that yields it; the list is complete before the first file is processed,
\* and a run that exits zero took every position of the list, duplicates
\* included, through the gate and then either skipped or wrote it.
ConcatenatedNoDedup ==
    /\ Len(image_files) = Offset(next_input)
    /\ \A k \in 1..(next_input - 1) :
          {image_files[Offset(k) + i] : i \in 1..Cardinality(ExpectedMatches(input[k]))}
              = ExpectedMatches(input[k])
    /\ pc \notin {"start", "expand", "done"} => next_input = Len(input) + 1
    /\ trace # <<>> => next_input = Len(input) + 1
    /\ exit = "ok" =>
          \A j \in 1..Len(image_files) :
              \/ HasEvent("decode", j) /\ HasEvent("resize", j) /\ HasEvent("write", j)
              \/ HasEvent("prompt", j) /\ ~HasEvent("decode", j)

\* a.png named literally and matched by the glob: listed twice, written twice.
ConcatenatedNoDedupWitness ==
    /\ exit = "ok"
    /\ image_files = <<FileA, FileA>>
    /\ HasEvent("write", 1)
    /\ HasEvent("write", 2)

====
